---- MODULE Spec2Model ----
(***************************************************************************)
(* generate_test_data.py: four CSV files (sales, customer, product,        *)
(* campaign) are generated one after the other.  Each data row is built    *)
(* from pseudo-random draws: fields sampled ahead of the row, derived      *)
(* fields, a duplicate-identifier decision (sales), an outlier decision,   *)
(* and the cell list handed to csv.writer, in which every cell passes      *)
(* through add_missing_values.                                             *)
(*                                                                         *)
(* Numbers.  Currency values (two decimals) are integers in cents; the     *)
(* percentages rounded to two decimals are integers in hundredths of a     *)
(* percent; round(x, 2) is rounding of the exact quotient to the nearest   *)
(* unit, ties to even.  A pseudo-random draw is a choice from a small set  *)
(* of values of the drawn range; random.random() < p is a Boolean choice.  *)
(*                                                                         *)
(* Files.  `row` is the list handed to writer.writerow, with the values    *)
(* it was built from; `disk` keeps, for every line written to every file,  *)
(* its number of cells and the loop index that produced it; `idcol` keeps  *)
(* the first-column cells of the data lines of the file that is open.      *)
(***************************************************************************)
EXTENDS Integers, Sequences, FiniteSets, TLC

VARIABLES file, step, i, loc, row, idcol, disk, draws

vars == <<file, step, i, loc, row, idcol, disk, draws>>

\* Rows per file: stands for the 25,000 of range(1, 25001) and range(1000, 26000).
RowCount == 3

\* Duplicate injection needs i > DupAfter: stands for the 100 of line 49.
DupAfter == 1

\* First product id, range(1000, 26000).
ProductFirstId == 1000

FileSet == {"sales", "customer", "product", "campaign"}

\* The column counts the program announces for each file (lines 86, 143, 213, 284).
DeclaredColumns(f) ==
    CASE f = "sales" -> 22
      [] f = "customer" -> 21
      [] f = "product" -> 23
      [] f = "campaign" -> 24

----------------------------------------------------------------------------
\* Cell values: what a Python value of the row is, and how csv.writer prints it.

Num(n) == [k |-> "int", n |-> n, s |-> ""]

Dec2(n) == [k |-> "dec2", n |-> n, s |-> ""]

Dec1(n) == [k |-> "dec1", n |-> n, s |-> ""]

Str(s) == [k |-> "str", n |-> 0, s |-> s]

\* date.strftime('%Y-%m-%d'): the date as the number yyyymmdd.
DateStr(d) == [k |-> "date", n |-> d, s |-> ""]

\* f"{s}_{n}" and the other formatted strings: never empty.
Fmt(s, n) == [k |-> "fmt", n |-> n, s |-> s]

Bool(b) == Str(IF b THEN "True" ELSE "False")

None == [k |-> "none", n |-> 0, s |-> ""]

Empty == Str("")

IsEmpty(c) == c.k = "str" /\ c.s = ""

\* round(p / q, 2-decimal unit), q > 0: nearest integer to p / q, ties to even.
RoundDiv(p, q) ==
    LET a == IF p < 0 THEN -p ELSE p
        d == a \div q
        r == a % q
        up == (2 * r > q) \/ (2 * r = q /\ d % 2 = 1)
        m == IF up THEN d + 1 ELSE d
    IN IF p < 0 THEN -m ELSE m

\* One more decimal digit of a / b: <<digits so far, remainder>>.
Digit(qr, b) == <<qr[1] * 10 + ((qr[2] * 10) \div b), (qr[2] * 10) % b>>

\* round(a / b * 100, 2) in hundredths of a percent, b > 0, by long division
\* (a * 10000 would exceed 32-bit integers).
Pct2(a, b) ==
    LET x == IF a < 0 THEN -a ELSE a
        q4 == Digit(Digit(Digit(Digit(<<x \div b, x % b>>, b), b), b), b)
        up == (2 * q4[2] > b) \/ (2 * q4[2] = b /\ q4[1] % 2 = 1)
        m == IF up THEN q4[1] + 1 ELSE q4[1]
    IN IF a < 0 THEN -m ELSE m

\* add_missing_values with the comparison turned round.
add_missing_values_reversed(value, fired) == IF fired THEN value ELSE Empty

\* add_missing_values(value, missing_rate): fired is random.random() < missing_rate.
add_missing_values(value, fired) == IF fired THEN Empty ELSE value

\* csv.writer prints None as the empty field and every other value by str().
CsvField(v) == IF v.k = "none" THEN Empty ELSE v

\* A writerow that leaves empty fields out.
writerow_skipping_empty(cells) ==
    SelectSeq([c \in 1..Len(cells) |-> CsvField(cells[c])], LAMBDA v : ~IsEmpty(v))

\* writer.writerow(list): one field per element of the list.
writerow(cells) == [c \in 1..Len(cells) |-> CsvField(cells[c])]

\* The cell list: every value through add_missing_values, in column order.
CellList(values, mask) ==
    [c \in 1..Len(values) |-> add_missing_values(values[c], c \in mask)]

\* The missing-value draws of one row that are considered: none fires,
\* exactly one fires, all fire.
Masks(w) == {{}} \cup {{c} : c \in 1..w} \cup {1..w}

RECURSIVE Repeat(_, _)
Repeat(tag, n) == IF n = 0 THEN <<>> ELSE <<tag>> \o Repeat(tag, n - 1)

\* The draws of the cell list, left to right: the value draws made inside a
\* cell's argument, then that cell's missing-value draw.
RECURSIVE CellDraws(_)
CellDraws(inline) ==
    IF inline = <<>> THEN <<>>
    ELSE Repeat("inline", Head(inline)) \o <<"miss">> \o CellDraws(Tail(inline))

\* Loop indices of a file: range(1, 25001), range(1000, 26000) for products.
FirstIndex(f) == IF f = "product" THEN ProductFirstId ELSE 1

\* A loop that stops one iteration early.
LastIndexShort(f) == FirstIndex(f) + RowCount - 2

LastIndex(f) == FirstIndex(f) + RowCount - 1

\* The statements of a loop body in program order: sample and derive, the
\* duplicate decision (sales only, lines 49-52), the outlier decision (lines
\* 55-57, 116-117, 181-183, 251-255), the cell list and writerow.
StepAfterOutlierFirst(f, s) ==
    IF f = "sales"
    THEN CASE s = "sample" -> "outlier"
           [] s = "outlier" -> "dup"
           [] s = "dup" -> "write"
    ELSE CASE s = "sample" -> "outlier"
           [] s = "outlier" -> "write"

StepAfter(f, s) ==
    IF f = "sales"
    THEN CASE s = "sample" -> "dup"
           [] s = "dup" -> "outlier"
           [] s = "outlier" -> "write"
    ELSE CASE s = "sample" -> "outlier"
           [] s = "outlier" -> "write"

NoRow == [file |-> "none"]

NoLoc == [file |-> "none"]

\* open(...) and the header row.
Open(f, header) ==
    /\ file = f /\ step = "open"
    /\ disk' = [disk EXCEPT ![f] = <<[kind |-> "header", width |-> Len(writerow(header)), index |-> 0]>>]
    /\ idcol' = <<>>
    /\ i' = FirstIndex(f)
    /\ step' = "sample"
    /\ row' = NoRow
    /\ draws' = <<>>
    /\ UNCHANGED <<file, loc>>

NextFile(f) ==
    CASE f = "sales" -> "customer"
      [] f = "customer" -> "product"
      [] f = "product" -> "campaign"
      [] f = "campaign" -> "done"

\* writer.writerow of a data row, and the loop's next iteration or its end.
Write(f, values, mask, out, dup, log) ==
    LET cells == writerow(CellList(values, mask))
    IN /\ row' = [file |-> f, index |-> i, cells |-> cells, values |-> values,
                  mask |-> mask, outlier |-> out, dup |-> dup]
       /\ disk' = [disk EXCEPT ![f] = Append(@, [kind |-> "data", width |-> Len(cells), index |-> i])]
       /\ idcol' = Append(idcol, cells[1])
       /\ draws' = draws \o log
       /\ IF i = LastIndex(f)
          THEN /\ file' = NextFile(f)
               /\ step' = "open"
               /\ i' = i
          ELSE /\ file' = f
               /\ step' = "sample"
               /\ i' = i + 1
       /\ UNCHANGED loc

----------------------------------------------------------------------------
\* File 1: sales_data.csv

SalesHeader ==
    << Str("transaction_id"), Str("date"), Str("customer_id"), Str("product_id"),
       Str("category"), Str("region"), Str("sales_amount"), Str("quantity"),
       Str("discount_percent"), Str("tax_amount"), Str("shipping_cost"),
       Str("total_amount"), Str("status"), Str("payment_method"),
       Str("customer_segment"), Str("delivery_days"), Str("rating"),
       Str("is_repeat_customer"), Str("promotion_applied"), Str("season"),
       Str("year"), Str("month") >>

SalesOpen ==
    /\ file = "sales"
    /\ Open("sales", SalesHeader)

\* random_date(2020-01-01, 2024-12-31)
SalesDates == {20200101, 20230815}

\* round(random.uniform(10, 5000), 2), in cents
SalesAmounts == {1001, 500000}

\* round(random.uniform(10000, 50000), 2), in cents
SalesOutlierAmounts == {1000000, 5000000}

\* random.randint(1, 20)
Quantities == {20}

\* random.choice([0, 5, 10, 15, 20, 25, 30])
Discounts == {0, 5}

\* round(random.uniform(0, 50), 2), in cents
ShippingCosts == {4999}

\* round(sales_amount * 0.08, 2)
SalesTax(sales_amount) == RoundDiv(sales_amount * 8, 100)

\* round(sales_amount - (sales_amount * discount / 100) + tax + shipping, 2),
\* computed in hundredths of a cent.
SalesTotal(sales_amount, discount, tax, shipping) ==
    RoundDiv(100 * sales_amount - sales_amount * discount + 100 * tax + 100 * shipping,
             100)

Month(d) == (d \div 100) % 100

Year(d) == d \div 10000

Season(d) ==
    IF Month(d) \in {12, 1, 2} THEN "Winter"
    ELSE IF Month(d) \in {3, 4, 5} THEN "Spring"
    ELSE IF Month(d) \in {6, 7, 8} THEN "Summer"
    ELSE "Fall"

\* Lines 40-46: the fields sampled ahead of the row and the derived ones.
SalesSample ==
    /\ file = "sales" /\ step = "sample"
    /\ \E date \in SalesDates, sales_amount \in SalesAmounts, quantity \in Quantities,
          discount \in Discounts, shipping \in ShippingCosts :
          LET tax == SalesTax(sales_amount)
          IN loc' = [file |-> "sales", date |-> date, sales_amount |-> sales_amount,
                     quantity |-> quantity, discount |-> discount, tax |-> tax,
                     shipping |-> shipping,
                     total |-> SalesTotal(sales_amount, discount, tax, shipping),
                     transaction_id |-> 0, dup |-> FALSE, outlier |-> FALSE]
    /\ draws' = <<"base", "base", "base", "base", "base">>
    /\ row' = NoRow
    /\ step' = StepAfter(file, step)
    /\ UNCHANGED <<file, i, idcol, disk>>

\* Lines 49-52: random.random() < 0.02 and i > 100, then randint(1, i-1).
SalesDuplicate ==
    /\ file = "sales" /\ step = "dup"
    /\ \E fired \in BOOLEAN :
          IF fired /\ i > DupAfter
          THEN \E t \in 1..(i - 1) :
                  /\ loc' = [loc EXCEPT !.transaction_id = t, !.dup = TRUE]
                  /\ draws' = draws \o <<"dup", "dupid">>
          ELSE /\ loc' = [loc EXCEPT !.transaction_id = i]
               /\ draws' = draws \o <<"dup">>
    /\ step' = StepAfter(file, step)
    /\ UNCHANGED <<file, i, row, idcol, disk>>

\* The outlier block without its line 57: total keeps the value of line 46.
SalesOutlierStaleTotal ==
    /\ file = "sales" /\ step = "outlier"
    /\ \E fired \in BOOLEAN :
          IF fired
          THEN \E sales_amount \in SalesOutlierAmounts :
                  /\ loc' = [loc EXCEPT !.sales_amount = sales_amount, !.outlier = TRUE]
                  /\ draws' = draws \o <<"outlier", "outval">>
          ELSE /\ loc' = loc
               /\ draws' = draws \o <<"outlier">>
    /\ step' = StepAfter(file, step)
    /\ UNCHANGED <<file, i, row, idcol, disk>>

\* Lines 55-57: the outlier in sales_amount; total is computed again.
SalesOutlier ==
    /\ file = "sales" /\ step = "outlier"
    /\ \E fired \in BOOLEAN :
          IF fired
          THEN \E sales_amount \in SalesOutlierAmounts :
                  /\ loc' = [loc EXCEPT !.sales_amount = sales_amount,
                                        !.total = SalesTotal(sales_amount, loc.discount,
                                                             loc.tax, loc.shipping),
                                        !.outlier = TRUE]
                  /\ draws' = draws \o <<"outlier", "outval">>
          ELSE /\ loc' = loc
               /\ draws' = draws \o <<"outlier">>
    /\ step' = StepAfter(file, step)
    /\ UNCHANGED <<file, i, row, idcol, disk>>

\* The values drawn inside the cell list (lines 64-67, 74-80).
SalesInline ==
    [customer_id : {5000}, product_id : {9999}, category : {"Electronics"},
     region : {"Central"}, status : {"Returned"}, payment_method : {"Cash"},
     customer_segment : {"VIP"}, delivery_days : {30}, rating : {1},
     is_repeat_customer : {TRUE}, promotion_applied : {FALSE}]

\* Value draws made inside each cell of the list, lines 62-83.
SalesInlineDraws == <<0, 0, 1, 1, 1, 1, 0, 0, 0, 0, 0, 0, 1, 1, 1, 1, 1, 1, 1, 0, 0, 0>>

\* The values of the cell list, lines 62-83.
SalesValues(l, v) ==
    << Num(l.transaction_id), DateStr(l.date), Num(v.customer_id), Num(v.product_id),
       Str(v.category), Str(v.region), Dec2(l.sales_amount), Num(l.quantity),
       Num(l.discount), Dec2(l.tax), Dec2(l.shipping), Dec2(l.total),
       Str(v.status), Str(v.payment_method), Str(v.customer_segment),
       Num(v.delivery_days), Num(v.rating), Bool(v.is_repeat_customer),
       Bool(v.promotion_applied), Str(Season(l.date)), Num(Year(l.date)),
       Num(Month(l.date)) >>

\* Lines 59-84.
SalesWrite ==
    /\ file = "sales" /\ step = "write"
    /\ \E v \in SalesInline, mask \in Masks(Len(SalesInlineDraws)) :
          Write("sales", SalesValues(loc, v), mask, loc.outlier, loc.dup,
                CellDraws(SalesInlineDraws))

----------------------------------------------------------------------------
\* File 2: customer_data.csv

CustomerHeader ==
    << Str("customer_id"), Str("first_name"), Str("last_name"), Str("email"),
       Str("phone"), Str("country"), Str("city"), Str("age"), Str("gender"),
       Str("signup_date"), Str("subscription_type"), Str("account_status"),
       Str("lifetime_value"), Str("total_orders"), Str("average_order_value"),
       Str("last_purchase_date"), Str("loyalty_points"), Str("is_verified"),
       Str("email_opt_in"), Str("sms_opt_in"), Str("referral_count") >>

CustomerOpen ==
    /\ file = "customer"
    /\ Open("customer", CustomerHeader)

\* random_date(2018-01-01, 2024-12-31)
SignupDates == {20180101}

\* random_date(signup, 2024-12-31)
LastPurchaseDates == {20241231}

\* random.randint(0, 200)
TotalOrders == {0, 200}

\* round(random.uniform(20, 500), 2), in cents
AverageOrders == {2000, 50000}

\* round(random.uniform(50000, 200000), 2), in cents
LifetimeOutliers == {5000000, 20000000}

\* round(total_orders * avg_order, 2)
LifetimeValue(total_orders, avg_order) == total_orders * avg_order

\* Lines 109-113.  last_purchase is None when random.random() > 0.1 is false,
\* and then random_date is not called.
CustomerSample ==
    /\ file = "customer" /\ step = "sample"
    /\ \E signup \in SignupDates, purchased \in BOOLEAN, date \in LastPurchaseDates,
          total_orders \in TotalOrders, avg_order \in AverageOrders :
          /\ loc' = [file |-> "customer", signup |-> signup,
                     last_purchase |-> IF purchased THEN DateStr(date) ELSE None,
                     total_orders |-> total_orders, avg_order |-> avg_order,
                     lifetime_value |-> LifetimeValue(total_orders, avg_order),
                     outlier |-> FALSE]
          /\ draws' = IF purchased THEN <<"base", "base", "base", "base", "base">>
                      ELSE <<"base", "base", "base", "base">>
    /\ row' = NoRow
    /\ step' = StepAfter(file, step)
    /\ UNCHANGED <<file, i, idcol, disk>>

\* Lines 116-117.
CustomerOutlier ==
    /\ file = "customer" /\ step = "outlier"
    /\ \E fired \in BOOLEAN :
          IF fired
          THEN \E lifetime_value \in LifetimeOutliers :
                  /\ loc' = [loc EXCEPT !.lifetime_value = lifetime_value,
                                        !.outlier = TRUE]
                  /\ draws' = draws \o <<"outlier", "outval">>
          ELSE /\ loc' = loc
               /\ draws' = draws \o <<"outlier">>
    /\ step' = StepAfter(file, step)
    /\ UNCHANGED <<file, i, row, idcol, disk>>

\* The values drawn inside the cell list (lines 121-140).
CustomerInline ==
    [first_name : {"John"}, last_name : {"Smith"}, email : {"emma.brown"},
     phone : {2001001000}, country : {"USA"}, city : {100}, age : {18},
     gender : {"Other"}, subscription_type : {"Free"}, account_status : {"Active"},
     loyalty_points : {0}, is_verified : {TRUE}, email_opt_in : {FALSE},
     sms_opt_in : {TRUE}, referral_count : {0}]

\* Value draws made inside each cell of the list, lines 120-140.
CustomerInlineDraws == <<0, 1, 1, 2, 3, 1, 1, 1, 1, 0, 1, 1, 0, 0, 0, 0, 1, 1, 1, 1, 1>>

\* last_purchase.strftime('%Y-%m-%d') if last_purchase else ""
LastPurchaseCell(last_purchase) ==
    IF last_purchase.k = "none" THEN Str("") ELSE last_purchase

\* The values of the cell list, lines 120-140.
CustomerValues(l, v) ==
    << Num(i), Str(v.first_name), Str(v.last_name), Fmt(v.email, 0), Fmt("+1", v.phone),
       Str(v.country), Fmt("City", v.city), Num(v.age), Str(v.gender),
       DateStr(l.signup), Str(v.subscription_type), Str(v.account_status),
       Dec2(l.lifetime_value), Num(l.total_orders), Dec2(l.avg_order),
       LastPurchaseCell(l.last_purchase), Num(v.loyalty_points), Bool(v.is_verified),
       Bool(v.email_opt_in), Bool(v.sms_opt_in), Num(v.referral_count) >>

\* Lines 119-141.
CustomerWrite ==
    /\ file = "customer" /\ step = "write"
    /\ \E v \in CustomerInline, mask \in Masks(Len(CustomerInlineDraws)) :
          Write("customer", CustomerValues(loc, v), mask, loc.outlier, FALSE,
                CellDraws(CustomerInlineDraws))

----------------------------------------------------------------------------
\* File 3: product_data.csv

ProductHeader ==
    << Str("product_id"), Str("product_name"), Str("category"), Str("subcategory"),
       Str("brand"), Str("supplier"), Str("cost_price"), Str("selling_price"),
       Str("profit_margin"), Str("stock_quantity"), Str("reorder_level"),
       Str("warehouse_location"), Str("weight_kg"), Str("dimensions_cm"),
       Str("color"), Str("size"), Str("material"), Str("rating_average"),
       Str("review_count"), Str("launch_date"), Str("status"), Str("is_featured"),
       Str("warranty_months") >>

ProductOpen ==
    /\ file = "product"
    /\ Open("product", ProductHeader)

\* random.choice(categories): one with subcategories, one without
Categories == {"Books", "Garden"}

\* subcategories.get(category, ["General"])
SubcategoryList(category) ==
    CASE category = "Electronics" -> {"Phones", "Laptops", "Tablets", "Cameras"}
      [] category = "Clothing" -> {"Shirts", "Pants", "Dresses", "Shoes"}
      [] category = "Furniture" -> {"Chairs", "Tables", "Sofas", "Beds"}
      [] category = "Food" -> {"Snacks", "Beverages", "Frozen", "Fresh"}
      [] category = "Books" -> {"Fiction", "Non-Fiction", "Educational", "Comics"}
      [] OTHER -> {"General"}

\* round(random.uniform(5, 500), 2), in cents
CostPrices == {500, 50000}

\* random.uniform(1.2, 3.0), in tenths
MarkupTenths == {12, 30}

\* round(random.uniform(5000, 20000), 2), in cents
SellingOutliers == {500000, 2000000}

\* round(cost * random.uniform(1.2, 3.0), 2)
SellingPrice(cost, markup) == RoundDiv(cost * markup, 10)

\* round(((selling - cost) / selling) * 100, 2)
ProfitMargin(selling, cost) == Pct2(selling - cost, selling)

\* Lines 174-178.
ProductSample ==
    /\ file = "product" /\ step = "sample"
    /\ \E category \in Categories, cost \in CostPrices, markup \in MarkupTenths :
          LET selling == SellingPrice(cost, markup)
          IN loc' = [file |-> "product", category |-> category, cost |-> cost,
                     selling |-> selling, margin |-> ProfitMargin(selling, cost),
                     outlier |-> FALSE]
    /\ draws' = <<"base", "base", "base">>
    /\ row' = NoRow
    /\ step' = StepAfter(file, step)
    /\ UNCHANGED <<file, i, idcol, disk>>

\* Lines 181-183: the outlier in selling; margin is computed again.
ProductOutlier ==
    /\ file = "product" /\ step = "outlier"
    /\ \E fired \in BOOLEAN :
          IF fired
          THEN \E selling \in SellingOutliers :
                  /\ loc' = [loc EXCEPT !.selling = selling,
                                        !.margin = ProfitMargin(selling, loc.cost),
                                        !.outlier = TRUE]
                  /\ draws' = draws \o <<"outlier", "outval">>
          ELSE /\ loc' = loc
               /\ draws' = draws \o <<"outlier">>
    /\ step' = StepAfter(file, step)
    /\ UNCHANGED <<file, i, row, idcol, disk>>

\* random_date(2015-01-01, 2024-12-31), line 185
LaunchDates == {20150101}

\* The values drawn inside the cell list (lines 191-210); the subcategory is
\* drawn from the list of the row's category.
ProductInline(category) ==
    [subcategory : {CHOOSE s \in SubcategoryList(category) : TRUE}, brand : {"BrandA"},
     supplier : {"Supplier1"}, stock_quantity : {0}, reorder_level : {10},
     warehouse : {"WH-North"}, weight : {10}, dimensions : {5}, color : {"Red"},
     size : {"XS"}, material : {"Wood"}, rating_average : {10, 50},
     review_count : {0}, status : {"Active"}, is_featured : {TRUE},
     warranty_months : {0}]

\* Value draws made inside each cell of the list, lines 188-210.
ProductInlineDraws ==
    <<0, 0, 0, 1, 1, 1, 0, 0, 0, 1, 1, 1, 1, 3, 1, 1, 1, 1, 1, 0, 1, 1, 1>>

\* The values of the cell list, lines 188-210.
ProductValues(l, launch, v) ==
    << Num(i), Fmt(l.category, i), Str(l.category), Str(v.subcategory), Str(v.brand),
       Str(v.supplier), Dec2(l.cost), Dec2(l.selling), Dec2(l.margin),
       Num(v.stock_quantity), Num(v.reorder_level), Str(v.warehouse), Dec2(v.weight),
       Fmt("x", v.dimensions), Str(v.color), Str(v.size), Str(v.material),
       Dec1(v.rating_average), Num(v.review_count), DateStr(launch), Str(v.status),
       Bool(v.is_featured), Num(v.warranty_months) >>

\* Lines 185-211: the launch date is drawn, then the cell list.
ProductWrite ==
    /\ file = "product" /\ step = "write"
    /\ \E launch \in LaunchDates, v \in ProductInline(loc.category),
          mask \in Masks(Len(ProductInlineDraws)) :
          Write("product", ProductValues(loc, launch, v), mask, loc.outlier, FALSE,
                <<"base">> \o CellDraws(ProductInlineDraws))

----------------------------------------------------------------------------
\* File 4: marketing_campaigns.csv

CampaignHeader ==
    << Str("campaign_id"), Str("campaign_name"), Str("start_date"), Str("end_date"),
       Str("channel"), Str("campaign_type"), Str("target_audience"), Str("ad_format"),
       Str("objective"), Str("budget"), Str("spend"), Str("impressions"),
       Str("clicks"), Str("conversions"), Str("ctr_percent"),
       Str("conversion_rate_percent"), Str("cost_per_click"),
       Str("cost_per_conversion"), Str("revenue_generated"), Str("roi_percent"),
       Str("region"), Str("is_active"), Str("a_b_test_variant"),
       Str("engagement_score") >>

CampaignOpen ==
    /\ file = "campaign"
    /\ Open("campaign", CampaignHeader)

\* random_date(2020-01-01, 2024-11-30), as days since 2020-01-01
StartDays == {0}

\* random.randint(7, 90)
Durations == {7}

\* round(random.uniform(1000, 100000), 2), in cents
Budgets == {100000, 10000000}

\* random.uniform(0.5, 1.1), in tenths
SpendTenths == {11}

\* random.randint(1000, 1000000)
Impressions == {1000}

\* random.randint(10, int(impressions * 0.1))
Clicks(impressions) == {10, impressions \div 10}

\* random.randint(0, int(clicks * 0.2))
Conversions(clicks) == {0, clicks \div 5}

\* random.uniform(50, 500), in whole currency units
RevenuePerConversion == {50}

\* round(random.uniform(500000, 2000000), 2), in cents
BudgetOutliers == {50000000, 200000000}

\* random.uniform(0.8, 1.0), in tenths
OutlierSpendTenths == {8, 10}

\* random.uniform(2, 10)
OutlierRevenueFactors == {2}

\* round(budget * random.uniform(...), 2), the factor in tenths
Spend(budget, tenths) == RoundDiv(budget * tenths, 10)

\* round((clicks / impressions * 100), 2) if impressions > 0 else 0
Ctr(clicks, impressions) ==
    IF impressions > 0 THEN Dec2(Pct2(clicks, impressions)) ELSE Num(0)

\* round((conversions / clicks * 100), 2) if clicks > 0 else 0
ConvRate(conversions, clicks) ==
    IF clicks > 0 THEN Dec2(Pct2(conversions, clicks)) ELSE Num(0)

\* round(spend / clicks, 2) if clicks > 0 else 0
Cpc(spend, clicks) == IF clicks > 0 THEN Dec2(RoundDiv(spend, clicks)) ELSE Num(0)

\* round(spend / conversions, 2) if conversions > 0 else 0
Cpa(spend, conversions) ==
    IF conversions > 0 THEN Dec2(RoundDiv(spend, conversions)) ELSE Num(0)

\* round(((revenue - spend) / spend * 100), 2) if spend > 0 else 0
Roi(revenue, spend) == IF spend > 0 THEN Dec2(Pct2(revenue - spend, spend)) ELSE Num(0)

\* Lines 234-248.
CampaignSample ==
    /\ file = "campaign" /\ step = "sample"
    /\ \E start \in StartDays, duration \in Durations, budget \in Budgets,
          tenths \in SpendTenths, impressions \in Impressions :
       \E clicks \in Clicks(impressions) :
       \E conversions \in Conversions(clicks), per \in RevenuePerConversion :
          LET spend == Spend(budget, tenths)
              revenue == conversions * per * 100
          IN loc' = [file |-> "campaign", start |-> start, end |-> start + duration,
                     budget |-> budget, spend |-> spend, impressions |-> impressions,
                     clicks |-> clicks, conversions |-> conversions,
                     ctr |-> Ctr(clicks, impressions),
                     conv_rate |-> ConvRate(conversions, clicks),
                     cpc |-> Cpc(spend, clicks), cpa |-> Cpa(spend, conversions),
                     revenue |-> revenue, roi |-> Roi(revenue, spend),
                     outlier |-> FALSE]
    /\ draws' = Repeat("base", 8)
    /\ row' = NoRow
    /\ step' = StepAfter(file, step)
    /\ UNCHANGED <<file, i, idcol, disk>>

\* Lines 251-255: budget, spend, revenue and roi are set again; cpc and cpa
\* keep the values of lines 245-246.
CampaignOutlier ==
    /\ file = "campaign" /\ step = "outlier"
    /\ \E fired \in BOOLEAN :
          IF fired
          THEN \E budget \in BudgetOutliers, tenths \in OutlierSpendTenths,
                  factor \in OutlierRevenueFactors :
                  LET spend == Spend(budget, tenths)
                      revenue == spend * factor
                  IN /\ loc' = [loc EXCEPT !.budget = budget, !.spend = spend,
                                           !.revenue = revenue,
                                           !.roi = Dec2(Pct2(revenue - spend, spend)),
                                           !.outlier = TRUE]
                     /\ draws' = draws \o <<"outlier", "outval", "outval", "outval">>
          ELSE /\ loc' = loc
               /\ draws' = draws \o <<"outlier">>
    /\ step' = StepAfter(file, step)
    /\ UNCHANGED <<file, i, row, idcol, disk>>

\* random.choice(["A", "B", "Control", None]), line 280
Variants == {Str("A"), Str("B"), Str("Control"), None}

\* The values drawn inside the cell list (lines 259-281).
CampaignInline ==
    [name_type : {"Launch"}, channel : {"Email"}, campaign_type : {"Awareness"},
     target_audience : {"65+"}, ad_format : {"Video"}, objective : {"Sales"},
     region : {"North"}, is_active : {TRUE}, variant : Variants,
     engagement_score : {1000}]

\* Value draws made inside each cell of the list, lines 258-281.
CampaignInlineDraws ==
    <<0, 1, 0, 0, 1, 1, 1, 1, 1, 0, 0, 0, 0, 0, 0, 0, 0, 0, 0, 0, 1, 1, 1, 1>>

\* strftime of a campaign date, kept as its day number.
DayStr(d) == [k |-> "day", n |-> d, s |-> ""]

\* The values of the cell list, lines 258-281.
CampaignValues(l, v) ==
    << Fmt("CMP", i), Fmt(v.name_type, i), DayStr(l.start), DayStr(l.end),
       Str(v.channel), Str(v.campaign_type), Str(v.target_audience), Str(v.ad_format),
       Str(v.objective), Dec2(l.budget), Dec2(l.spend), Num(l.impressions),
       Num(l.clicks), Num(l.conversions), l.ctr, l.conv_rate, l.cpc, l.cpa,
       Dec2(l.revenue), l.roi, Str(v.region), Bool(v.is_active), v.variant,
       Dec1(v.engagement_score) >>

\* Lines 257-282.
CampaignWrite ==
    /\ file = "campaign" /\ step = "write"
    /\ \E v \in CampaignInline, mask \in Masks(Len(CampaignInlineDraws)) :
          Write("campaign", CampaignValues(loc, v), mask, loc.outlier, FALSE,
                CellDraws(CampaignInlineDraws))

----------------------------------------------------------------------------
Init ==
    /\ file = "sales"
    /\ step = "open"
    /\ i = 0
    /\ loc = NoLoc
    /\ row = NoRow
    /\ idcol = <<>>
    /\ disk = [f \in FileSet |-> <<>>]
    /\ draws = <<>>

Next ==
    \/ SalesOpen
    \/ SalesSample
    \/ SalesDuplicate
    \/ SalesOutlier
    \/ SalesWrite
    \/ CustomerOpen
    \/ CustomerSample
    \/ CustomerOutlier
    \/ CustomerWrite
    \/ ProductOpen
    \/ ProductSample
    \/ ProductOutlier
    \/ ProductWrite
    \/ CampaignOpen
    \/ CampaignSample
    \/ CampaignOutlier
    \/ CampaignWrite

Spec == Init /\ [][Next]_vars

----------------------------------------------------------------------------
\* Properties.  A row is judged in the state in which writerow has just
\* written it: row holds its cells, the values they were built from, the
\* missing-value draws that fired, and draws holds the row's draws in order.

Written == row.file # "none"

Cell(c) == row.cells[c]

Present(cols) == \A c \in cols : ~IsEmpty(Cell(c))

\* The range the outlier block resamples from (lines 56, 117, 182, 252), in cents.
OutlierLow(f) ==
    CASE f = "sales" -> 1000000
      [] f = "customer" -> 5000000
      [] f = "product" -> 500000
      [] f = "campaign" -> 50000000

OutlierHigh(f) ==
    CASE f = "sales" -> 5000000
      [] f = "customer" -> 20000000
      [] f = "product" -> 2000000
      [] f = "campaign" -> 200000000

\* The column the outlier block resamples: sales_amount, lifetime_value,
\* selling_price, budget.
OutlierColumn(f) ==
    CASE f = "sales" -> 7
      [] f = "customer" -> 13
      [] f = "product" -> 8
      [] f = "campaign" -> 10

\* C2: in a sales row whose total_amount, sales_amount, tax_amount,
\* shipping_cost and discount_percent cells are all present, the emitted total
\* is round(sales*(1 - discount/100) + tax + shipping, 2) of the emitted
\* values, outlier rows included.
C2_TotalFromEmitted ==
    (Written /\ row.file = "sales" /\ Present({7, 9, 10, 11, 12}))
        => Cell(12).n = RoundDiv(Cell(7).n * (100 - Cell(9).n) + 100 * Cell(10).n
                                 + 100 * Cell(11).n, 100)

C2_Witness ==
    /\ Written /\ row.file = "sales" /\ row.outlier
    /\ Present({7, 9, 10, 11, 12})
    /\ Cell(9).n = 5

\* C3: in a campaign row whose spend, clicks and cost_per_click cells are
\* present, cost_per_click is round(spend/clicks, 2) of the emitted spend and
\* clicks when clicks > 0 and 0 when clicks = 0, outlier rows included.
C3_CpcFromEmitted ==
    (Written /\ row.file = "campaign" /\ Present({11, 13, 17}))
        => Cell(17).n = IF Cell(13).n > 0 THEN RoundDiv(Cell(11).n, Cell(13).n) ELSE 0

\* C4: when generation has finished every file holds one header line followed
\* by RowCount data lines in generation order; the identifier a customer,
\* product or campaign row carries before blanking is its loop index, so the
\* product rows carry 1000, 1001, ... and the others 1, 2, ... each once.
C4_HeaderAndRows ==
    /\ file = "done" =>
          \A f \in FileSet :
             /\ Len(disk[f]) = 1 + RowCount
             /\ disk[f][1].kind = "header"
             /\ \A k \in 1..RowCount :
                   /\ disk[f][k + 1].kind = "data"
                   /\ disk[f][k + 1].index =
                         (IF f = "product" THEN ProductFirstId ELSE 1) + k - 1
    /\ (Written /\ row.file \in {"customer", "product"}) => row.values[1] = Num(row.index)
    /\ (Written /\ row.file = "campaign") => row.values[1] = Fmt("CMP", row.index)
    /\ Written => disk[row.file][Len(disk[row.file])].index = row.index

C4_Witness ==
    /\ file = "done"
    /\ Written /\ row.file = "campaign" /\ row.index = RowCount

\* C5: every line written, header or data, has the declared number of cells
\* of its file, whatever cells the missing-value step blanked: a blanked cell
\* is an empty string in its own position and every other cell holds the
\* value generated for its column.
C5_DeclaredWidth ==
    /\ \A f \in FileSet : \A k \in 1..Len(disk[f]) :
          disk[f][k].width = DeclaredColumns(f)
    /\ Written =>
          /\ Len(row.cells) = DeclaredColumns(row.file)
          /\ \A c \in 1..DeclaredColumns(row.file) :
                IF c \in row.mask THEN IsEmpty(row.cells[c])
                ELSE row.cells[c] = CsvField(row.values[c])

C5_Witness ==
    /\ Written /\ row.file = "sales"
    /\ row.mask = 1..22
    /\ Len(row.cells) = 22
    /\ Len(disk["sales"]) = 1 + RowCount

\* C6: when the outlier step fired, every field derived from the resampled
\* one is consistent with the new value in the emitted row: sales tax and
\* total with sales_amount, product margin with selling_price, campaign
\* cost_per_click, cost_per_conversion and roi_percent with spend.
C6_DependentsRecomputed ==
    (Written /\ row.outlier) =>
        /\ row.file = "sales" =>
              /\ row.values[10] = Dec2(SalesTax(row.values[7].n))
              /\ row.values[12] = Dec2(SalesTotal(row.values[7].n, row.values[9].n,
                                                  row.values[10].n, row.values[11].n))
        /\ row.file = "product" =>
              row.values[9] = Dec2(ProfitMargin(row.values[8].n, row.values[7].n))
        /\ row.file = "campaign" =>
              /\ row.values[17] = Cpc(row.values[11].n, row.values[13].n)
              /\ row.values[18] = Cpa(row.values[11].n, row.values[14].n)
              /\ row.values[20] = Roi(row.values[19].n, row.values[11].n)

\* C7: in the sales file a row without duplicate injection carries its own
\* index i; injection fires only for i > DupAfter; and when it fires the row's
\* transaction_id is one that an earlier row emitted as its transaction_id.
C7_DuplicateOfEmitted ==
    (Written /\ row.file = "sales") =>
        /\ ~row.dup => row.values[1] = Num(row.index)
        /\ row.dup => row.index > DupAfter
        /\ row.dup => \E k \in 1..(Len(idcol) - 1) : idcol[k] = row.values[1]

\* The draws of a row, by position.
Positions(tags) == {k \in 1..Len(draws) : draws[k] \in tags}

FieldDraws == {"base", "inline"}

DecisionDraws == {"dup", "dupid", "outlier", "outval"}

Before(A, B) == \A j \in A, k \in B : j < k

C9_OutlierRangeIffFired ==
    Written =>
        LET x == row.values[OutlierColumn(row.file)].n
        IN (OutlierLow(row.file) <= x /\ x <= OutlierHigh(row.file)) <=> row.outlier

\* C10: a cell whose missing-value draw fired is emitted empty; a cell
\* emitted empty whose draw did not fire is the customer last_purchase_date
\* (column 16) or the campaign a_b_test_variant (column 23).
C10_EmptyOnlyIfBlanked ==
    Written =>
        \A c \in 1..Len(row.cells) :
           /\ c \in row.mask => IsEmpty(row.cells[c])
           /\ (IsEmpty(row.cells[c]) /\ c \notin row.mask) =>
                 \/ row.file = "customer" /\ c = 16
                 \/ row.file = "campaign" /\ c = 23

C10_Witness ==
    /\ Written /\ row.file = "campaign"
    /\ row.mask = {1}
    /\ IsEmpty(row.cells[1])
    /\ IsEmpty(row.cells[23])
    /\ row.values[23] = None
====
